---------------------------- MODULE Spec2Model ----------------------------
(***************************************************************************)
(* A model of the retrieval core of ai-trip-planner:                       *)
(*   src/src/vector_store.py       VectorStore (Annoy index + documents)   *)
(*   src/src/rag.py                chunk_text, InMemoryVectorStore         *)
(*   src/src/knowledge_processor.py  KnowledgeProcessor.get_relevant_info  *)
(*                                                                         *)
(* Representation.                                                         *)
(*   A Python str is a sequence of character codes; 32 is the space.       *)
(*   A metadata dict is a record; {} is EmptyDict.                         *)
(*   An embedding vector is a direction on a ring of NDirs unit vectors.   *)
(*   An angular distance d is carried as 20 * d^2 (0..80 for d in 0..2),   *)
(*   a similarity score s as 40 * s (-40..40), so 0.6 is 24.               *)
(***************************************************************************)
EXTENDS Integers, Sequences, FiniteSets, TLC

VARIABLES
    index,              \* VectorStore.index: None or an Annoy index
    documents,          \* VectorStore.documents
    document_metadata,  \* VectorStore.document_metadata
    dimension,          \* VectorStore.dimension
    is_built,           \* VectorStore.is_built
    disk,               \* the two persisted artifacts: filepath.ann, filepath.pkl
    mem,                \* an InMemoryVectorStore: index, chunks, sources
    chunk_in,           \* the arguments of a chunk_text call
    web,                \* a WebSearch: cache, the cache file, the clock
    cache_dir,          \* the itinerary cache directory: cache key -> file
    last                \* the last call made and what it returned

vars == <<index, documents, document_metadata, dimension, is_built, disk, mem,
          chunk_in, web, cache_dir, last>>

None == <<>>          \* Python None, for a value that is otherwise Some(x)
Some(x) == <<x>>
the(o) == o[1]

(***************************************************************************)
(* Bounds of the model.                                                    *)
(***************************************************************************)
MaxDocs == 2      \* VectorStore.documents grows to at most this many entries
MaxK == 3         \* search is called with k in 0..MaxK
MaxPageWords == 1 \* words of the longest page given to process_destination_info
MaxKPDocs == 18   \* documents in the KnowledgeProcessor's store
BigCorpusSize == 14 \* texts of the large batch added to that store
MaxTextLen == 7   \* characters of a text given to chunk_text
MaxWindow == 3    \* chunk_text is called with a window of 1..MaxWindow words

(***************************************************************************)
(* Strings.                                                                *)
(***************************************************************************)
Space == 32
Newline == 10
Whitespace == {Space, Newline}

RECURSIVE SumSeq(_)
SumSeq(s) == IF s = <<>> THEN 0 ELSE Head(s) + SumSeq(Tail(s))

RECURSIVE Flatten(_)
Flatten(ss) == IF ss = <<>> THEN <<>> ELSE Head(ss) \o Flatten(Tail(ss))

\* s[a:b] of Python, 0-based and clipped to the sequence
Slice(s, a, b) ==
    LET hi == IF b < Len(s) THEN b ELSE Len(s)
    IN  IF a >= hi THEN <<>> ELSE [i \in 1..(hi - a) |-> s[a + i]]

\* text.split(): the maximal runs of non-whitespace characters
RECURSIVE SplitFrom(_, _, _)
SplitFrom(text, i, cur) ==
    IF i > Len(text)
    THEN IF cur = <<>> THEN <<>> ELSE <<cur>>
    ELSE IF text[i] \in Whitespace
         THEN (IF cur = <<>> THEN <<>> ELSE <<cur>>) \o SplitFrom(text, i + 1, <<>>)
         ELSE SplitFrom(text, i + 1, Append(cur, text[i]))

split(text) == SplitFrom(text, 1, <<>>)

\* sep.join(parts)
RECURSIVE join(_, _)
join(sep, parts) ==
    IF parts = <<>> THEN <<>>
    ELSE IF Len(parts) = 1 THEN parts[1]
    ELSE parts[1] \o sep \o join(sep, Tail(parts))

(***************************************************************************)
(* The embedding model and the Annoy index (libraries the code calls).     *)
(***************************************************************************)
NDirs == 8

\* SentenceTransformer.encode: a deterministic map from a text to a vector
encode(text) == SumSeq(text) % NDirs

\* 20 * (angular distance)^2 between two directions, by their separation on
\* the ring: similarities 1, 0.8, 0.6, 0 and then -1 for opposite vectors
AngularD2(u, v) ==
    LET a == IF u >= v THEN u - v ELSE v - u
        sep == IF a <= NDirs - a THEN a ELSE NDirs - a
    IN  CASE sep = 0 -> 0
          [] sep = 1 -> 8
          [] sep = 2 -> 16
          [] sep = 3 -> 40
          [] OTHER   -> 80

\* the length of the vectors all-MiniLM-L6-v2 encodes to
EncoderDimension == 384

\* AnnoyIndex(f, 'angular'): no items, no trees, not memory-mapped
AnnoyIndex(f) == [f |-> f, items |-> <<>>, built |-> FALSE, loaded |-> FALSE, cover |-> 0]

\* AnnoyIndex.add_item(i, v).  A loaded index refuses.  After build() "no more
\* items can be added": the library either refuses or stores the item without
\* putting it in the forest (accept chooses).  An index of another dimension
\* than the encoder's refuses the vector.
add_item_raises(ix, accept) ==
    ix.f /= EncoderDimension \/ ix.loaded \/ (ix.built /\ ~accept)

add_item(ix, v) == [ix EXCEPT !.items = Append(@, v)]

\* AnnoyIndex.build(n_trees): the forest covers the items present now
annoy_build(ix) == [ix EXCEPT !.built = TRUE, !.cover = Len(ix.items)]

Min(S) == CHOOSE x \in S : \A y \in S : x <= y

\* AnnoyIndex.get_nns_by_vector(v, k, include_distances=True): the k nearest
\* of the candidates the forest search visits, nearest first (items at the
\* same distance in item order)
RECURSIVE Nearest(_, _, _, _)
Nearest(ix, v, k, cand) ==
    IF k <= 0 \/ cand = {} THEN <<>>
    ELSE LET d2min == Min({AngularD2(v, ix.items[j + 1]) : j \in cand})
             best == Min({i \in cand : AngularD2(v, ix.items[i + 1]) = d2min})
         IN  <<[idx |-> best, d2 |-> d2min]>> \o Nearest(ix, v, k - 1, cand \ {best})

get_nns_by_vector(ix, v, k, cand) ==
    IF ix.built \/ ix.loaded THEN Nearest(ix, v, k, cand) ELSE <<>>

\* get_nns_by_vector raises for a vector of another length than the index's
WrongLength(ix) == ix.f /= EncoderDimension

\* the items of an index, and the candidate sets a forest search may end with:
\* the search is approximate, so it sees every item or misses one
Items(ix) == 0..(Len(ix.items) - 1)
Candidates(ixo) ==
    IF ixo = None THEN {{}}
    ELSE {Items(the(ixo))} \cup {Items(the(ixo)) \ {i} : i \in Items(the(ixo))}

\* a similarity that leaves out the halving: 1 - d^2
similarity_NotHalved(d2) == 40 - 2 * d2

\* line 77: similarity = 1 - d^2 / 2, times 40
similarity(d2) == 40 - d2


(***************************************************************************)
(* VectorStore (src/src/vector_store.py).                                  *)
(***************************************************************************)
DefaultDimension == 384
ChunkSize == 500
ChunkOverlap == 50

EmptyDict == [destination |-> <<>>, chunk_id |-> -1]

Store == [index |-> index, documents |-> documents,
          document_metadata |-> document_metadata,
          dimension |-> dimension, is_built |-> is_built]

\* VectorStore.__init__
NewStore == [index |-> None, documents |-> <<>>, document_metadata |-> <<>>,
             dimension |-> DefaultDimension, is_built |-> FALSE]

\* [{}] * n
EmptyDicts(n) == [i \in 1..n |-> EmptyDict]

\* lines 47-50: what document_metadata is extended with.  metadata is None or
\* Some(list); None and the empty list are both falsy.
MetadataToStore(texts, metadata) ==
    IF metadata /= None /\ the(metadata) /= <<>>
    THEN the(metadata)
    ELSE EmptyDicts(Len(texts))

RECURSIVE AddItems(_, _)
AddItems(ix, embeddings) ==
    IF embeddings = <<>> THEN ix
    ELSE AddItems(add_item(ix, Head(embeddings)), Tail(embeddings))

\* VectorStore.create_embeddings(texts, metadata)
create_embeddings(s, texts, metadata, accept) ==
    IF texts = <<>> THEN [store |-> s, raised |-> FALSE]
    ELSE
      LET embeddings == [i \in 1..Len(texts) |-> encode(texts[i])]
          s1 == IF s.index = None
                THEN [s EXCEPT !.index = Some(AnnoyIndex(s.dimension)), !.is_built = FALSE]
                ELSE s
      IN  IF add_item_raises(the(s1.index), accept)
          THEN [store |-> s1, raised |-> TRUE]
          ELSE [store |-> [s1 EXCEPT
                    !.index = Some(AddItems(the(s1.index), embeddings)),
                    !.documents = @ \o texts,
                    !.document_metadata = @ \o MetadataToStore(texts, metadata)],
                raised |-> FALSE]

\* VectorStore.build_index()
build_index(s) ==
    IF s.index /= None /\ ~s.is_built /\ Len(s.documents) > 0
    THEN [s EXCEPT !.index = Some(annoy_build(the(s.index))), !.is_built = TRUE]
    ELSE s

\* lines 80-87: the result tuples, in the order the index returned them
RECURSIVE FormatResults(_, _)
FormatResults(s, nns) ==
    IF nns = <<>> THEN <<>>
    ELSE IF Head(nns).idx < Len(s.documents)
         THEN <<[doc |-> s.documents[Head(nns).idx + 1],
                 score |-> similarity(Head(nns).d2),
                 meta |-> s.document_metadata[Head(nns).idx + 1]]>>
                  \o FormatResults(s, Tail(nns))
         ELSE FormatResults(s, Tail(nns))

\* document_metadata[idx] raises IndexError for a valid idx past its end
MetadataIndexError(s, nns) ==
    \E i \in 1..Len(nns) :
        /\ nns[i].idx < Len(s.documents)
        /\ nns[i].idx >= Len(s.document_metadata)

\* a search that encodes the query before the guard and outside the try
search_EncodeFirst(s, query, k, cand, fault) ==
    IF fault THEN [results |-> <<>>, raised |-> TRUE]
    ELSE IF s.index = None \/ Len(s.documents) = 0 \/ ~s.is_built
    THEN [results |-> <<>>, raised |-> FALSE]
    ELSE LET nns == get_nns_by_vector(the(s.index), encode(query), k, cand)
         IN  IF WrongLength(the(s.index)) \/ MetadataIndexError(s, nns)
             THEN [results |-> <<>>, raised |-> FALSE]
             ELSE [results |-> FormatResults(s, nns), raised |-> FALSE]

\* a search without the try/except of lines 69-93
search_NoExcept(s, query, k, cand, fault) ==
    IF s.index = None \/ Len(s.documents) = 0 \/ ~s.is_built
    THEN [results |-> <<>>, raised |-> FALSE]
    ELSE LET nns == get_nns_by_vector(the(s.index), encode(query), k, cand)
         IN  IF fault \/ WrongLength(the(s.index)) \/ MetadataIndexError(s, nns)
             THEN [results |-> <<>>, raised |-> TRUE]
             ELSE [results |-> FormatResults(s, nns), raised |-> FALSE]

\* VectorStore.search(query, k).  cand: the items the forest search visits;
\* fault: model.encode raises.  Everything after the guard is inside try/except.
search(s, query, k, cand, fault) ==
    IF s.index = None \/ Len(s.documents) = 0 \/ ~s.is_built
    THEN [results |-> <<>>, raised |-> FALSE]
    ELSE LET nns == get_nns_by_vector(the(s.index), encode(query), k, cand)
         IN  IF fault \/ WrongLength(the(s.index)) \/ MetadataIndexError(s, nns)
             THEN [results |-> <<>>, raised |-> FALSE]
             ELSE [results |-> FormatResults(s, nns), raised |-> FALSE]

\* the chunks starting at the offsets from `from` on, in order
RECURSIVE ChunksFrom(_, _, _, _)
ChunksFrom(words, from, step, size) ==
    IF from >= Len(words) THEN <<>>
    ELSE <<join(<<Space>>, Slice(words, from, from + size))>>
             \o ChunksFrom(words, from + step, step, size)

\* VectorStore.chunk_text(text, chunk_size, overlap): range() raises ValueError
\* for a step of 0 and is empty for a negative one
chunk_text(text, chunk_size, overlap) ==
    LET words == split(text)
        step == chunk_size - overlap
    IN  IF step = 0 THEN [chunks |-> <<>>, raised |-> TRUE]
        ELSE IF step < 0 THEN [chunks |-> <<>>, raised |-> FALSE]
        ELSE [chunks |-> ChunksFrom(words, 0, step, chunk_size), raised |-> FALSE]

\* VectorStore.process_destination_info(destination, info_text)
process_destination_info(s, destination, info_text, accept) ==
    LET chunks == chunk_text(info_text, ChunkSize, ChunkOverlap).chunks
        metadata == [i \in 1..Len(chunks) |->
                        [destination |-> destination, chunk_id |-> i - 1]]
        r == create_embeddings(s, chunks, Some(metadata), accept)
    IN  IF r.raised THEN r
        ELSE [store |-> build_index(r.store), raised |-> FALSE]

\* a save that pickles the documents without their metadata
save_NoMetadata(s, d) ==
    IF s.index = None \/ ~s.is_built THEN [store |-> s, disk |-> d]
    ELSE [store |-> [s EXCEPT !.index = Some([the(s.index) EXCEPT !.loaded = TRUE])],
          disk |-> [ann |-> Some([f |-> the(s.index).f, items |-> the(s.index).items,
                                  cover |-> the(s.index).cover]),
                    pkl |-> Some([documents |-> s.documents,
                                  metadata |-> <<>>,
                                  dimension |-> s.dimension])]]

\* VectorStore.save(filepath).  AnnoyIndex.save writes the file and then maps
\* it back in, which leaves the index loaded.
save(s, d) ==
    IF s.index = None \/ ~s.is_built THEN [store |-> s, disk |-> d]
    ELSE [store |-> [s EXCEPT !.index = Some([the(s.index) EXCEPT !.loaded = TRUE])],
          disk |-> [ann |-> Some([f |-> the(s.index).f, items |-> the(s.index).items,
                                  cover |-> the(s.index).cover]),
                    pkl |-> Some([documents |-> s.documents,
                                  metadata |-> s.document_metadata,
                                  dimension |-> s.dimension])]]

\* lines 164-169: the except branch
LoadFailed(s) ==
    [s EXCEPT !.index = None, !.documents = <<>>, !.document_metadata = <<>>,
              !.is_built = FALSE]

\* a load whose try ends before the index file is read: a failure there
\* reaches the caller and the except branch is not run
load_IndexOutsideTry(s, d, fault) ==
    IF d.pkl = None \/ fault = "pkl"
    THEN [store |-> LoadFailed(s), raised |-> FALSE]
    ELSE LET data == the(d.pkl)
             s1 == [s EXCEPT !.documents = data.documents,
                             !.document_metadata = data.metadata,
                             !.dimension = data.dimension]
         IN  IF d.ann = None \/ fault = "ann" \/ the(d.ann).f /= s1.dimension
             THEN [store |-> s1, raised |-> TRUE]
             ELSE [store |->
                     [s1 EXCEPT
                        !.index = Some([f |-> s1.dimension, items |-> the(d.ann).items,
                                        built |-> TRUE, loaded |-> TRUE,
                                        cover |-> the(d.ann).cover]),
                        !.is_built = TRUE],
                   raised |-> FALSE]

\* VectorStore.load(filepath).  fault: "pkl" or "ann" when reading that file
\* raises although it is there.  AnnoyIndex.load refuses a file whose size does
\* not fit vectors of the index's dimension.
load(s, d, fault) ==
    IF d.pkl = None \/ fault = "pkl"
    THEN [store |-> LoadFailed(s), raised |-> FALSE]
    ELSE LET data == the(d.pkl)
             s1 == [s EXCEPT !.documents = data.documents,
                             !.document_metadata = data.metadata,
                             !.dimension = data.dimension]
         IN  IF d.ann = None \/ fault = "ann" \/ the(d.ann).f /= s1.dimension
             THEN [store |-> LoadFailed(s1), raised |-> FALSE]
             ELSE [store |->
                     [s1 EXCEPT
                        !.index = Some([f |-> s1.dimension, items |-> the(d.ann).items,
                                        built |-> TRUE, loaded |-> TRUE,
                                        cover |-> the(d.ann).cover]),
                        !.is_built = TRUE],
                   raised |-> FALSE]

(***************************************************************************)
(* rag.py: chunk_text and InMemoryVectorStore.                             *)
(***************************************************************************)
\* the non-empty chunks starting at the offsets from `from` on, in order
RECURSIVE RagChunksFrom(_, _, _, _)
RagChunksFrom(words, from, step, size) ==
    IF from >= Len(words) THEN <<>>
    ELSE LET chunk == join(<<Space>>, Slice(words, from, from + size))
         IN  (IF chunk /= <<>> THEN <<chunk>> ELSE <<>>)
                 \o RagChunksFrom(words, from + step, step, size)

\* a chunker that steps by the whole window: consecutive chunks share nothing
rag_chunk_text_WindowStep(text, chunk_words, overlap_words) ==
    RagChunksFrom(split(text), 0, chunk_words, chunk_words)

\* rag.chunk_text(text, chunk_words, overlap_words)
rag_chunk_text(text, chunk_words, overlap_words) ==
    LET words == split(text)
        step == IF chunk_words - overlap_words > 1
                THEN chunk_words - overlap_words ELSE 1
    IN  RagChunksFrom(words, 0, step, chunk_words)

\* InMemoryVectorStore.__init__
NewMem == [index |-> None, chunks |-> <<>>, sources |-> <<>>]

\* InMemoryVectorStore.build(corpus): corpus is a list of (chunk, url)
InMemoryVectorStore_build(m, corpus) ==
    IF corpus = <<>> THEN m
    ELSE LET chunks == [i \in 1..Len(corpus) |-> corpus[i][1]]
             embeds == [i \in 1..Len(chunks) |-> encode(chunks[i])]
         IN  [index |-> Some(annoy_build(AddItems(AnnoyIndex(DefaultDimension), embeds))),
              chunks |-> chunks,
              sources |-> [i \in 1..Len(corpus) |-> corpus[i][2]]]

RECURSIVE MemFormatResults(_, _)
MemFormatResults(m, nns) ==
    IF nns = <<>> THEN <<>>
    ELSE IF 0 <= Head(nns).idx /\ Head(nns).idx < Len(m.chunks)
         THEN <<[doc |-> m.chunks[Head(nns).idx + 1],
                 source |-> m.sources[Head(nns).idx + 1],
                 score |-> similarity(Head(nns).d2)]>>
                  \o MemFormatResults(m, Tail(nns))
         ELSE MemFormatResults(m, Tail(nns))

\* InMemoryVectorStore.search(query, k).  fault: _embed raises; nothing
\* catches it here.
InMemoryVectorStore_search(m, query, k, cand, fault) ==
    IF m.index = None \/ m.chunks = <<>>
    THEN [results |-> <<>>, raised |-> FALSE]
    ELSE IF fault THEN [results |-> <<>>, raised |-> TRUE]
    ELSE [results |-> MemFormatResults(m,
                          get_nns_by_vector(the(m.index), encode(query), k, cand)),
          raised |-> FALSE]

(***************************************************************************)
(* WebSearch (src/src/search.py): the page-fetch cache.  The cache maps a   *)
(* URL to None or an entry; the cache file is missing, holds a cache, or    *)
(* holds a truncated document; now is datetime.now().timestamp() in         *)
(* seconds.                                                                 *)
(***************************************************************************)
TTL == 86400        \* line 54

Urls == {"u1", "u2", "b1"}
EmptyCache == [u \in Urls |-> None]
MissingFile == [state |-> "missing", data |-> EmptyCache]

\* WebSearch.load_cache(): {} for a missing file and for one json cannot read
load_cache(file) == IF file.state = "ok" THEN file.data ELSE EmptyCache

\* utils/caching.py: no file in data/itinerary_cache
CacheKeys == {"k1"}
EmptyCacheDir == [k \in CacheKeys |-> None]

\* WebSearch.__init__ with no cache file on disk
NewWebSearch == [cache |-> load_cache(MissingFile), file |-> MissingFile, now |-> 0]

\* WebSearch.save_cache().  fault: "open" when the file cannot be opened for
\* writing, "dump" when writing stops after the file was truncated.
save_cache(w, fault) ==
    [web |-> [w EXCEPT !.file =
                 CASE fault = "none" -> [state |-> "ok", data |-> w.cache]
                   [] fault = "open" -> w.file
                   [] OTHER -> [state |-> "corrupt", data |-> EmptyCache]],
     raised |-> FALSE]

\* a lookup that never expires an entry
get_cached_content_NoExpiry(w, url) ==
    IF w.cache[url] /= None THEN Some(the(w.cache[url]).content) ELSE None

\* WebSearch.get_cached_content(url)
get_cached_content(w, url) ==
    IF w.cache[url] /= None /\ w.now - the(w.cache[url]).timestamp < TTL
    THEN Some(the(w.cache[url]).content)
    ELSE None

\* a write that keeps the timestamp of the entry it replaces
cache_content_OldTimestamp(w, url, content, fault) ==
    save_cache([w EXCEPT !.cache[url] =
                    Some([content |-> content,
                          timestamp |-> IF w.cache[url] = None THEN w.now
                                        ELSE the(w.cache[url]).timestamp])], fault)

\* WebSearch.cache_content(url, content)
cache_content(w, url, content, fault) ==
    save_cache([w EXCEPT !.cache[url] =
                    Some([content |-> content, timestamp |-> w.now])], fault)

\* WebSearch.get_page_content(url).  page: what get_page_content_with_retry
\* returns, "" after failed attempts; fetched: whether it was called.
get_page_content(w, url, page, fault) ==
    LET cached_content == get_cached_content(w, url)
    IN  IF cached_content /= None /\ the(cached_content) /= <<>>
        THEN [web |-> w, content |-> the(cached_content), fetched |-> FALSE,
              raised |-> FALSE]
        ELSE IF page /= <<>>
        THEN LET r == cache_content(w, url, page, fault)
             IN  [web |-> r.web, content |-> page, fetched |-> TRUE,
                  raised |-> r.raised]
        ELSE [web |-> w, content |-> page, fetched |-> TRUE, raised |-> FALSE]

(***************************************************************************)
(* Fetching pages (src/src/search.py).  A URL is a key; Domain gives the    *)
(* host name that occurs in it.  The answer of one HTTP request is a status:*)
(* "200", "403", "429", "500" for any other HTTP error, "timeout", or       *)
(* "error" for any other exception.                                         *)
(***************************************************************************)
blocked_domains ==
    {"tripadvisor.com", "expedia.com", "booking.com", "travelweekly.com", "hotels.com"}

Domain(url) ==
    CASE url = "u1" -> "lonelyplanet.com"
      [] url = "u2" -> "wikivoyage.org"
      [] OTHER -> "booking.com"

\* WebSearch.is_blocked_domain(url): some blocked domain occurs in the URL
is_blocked_domain(url) == \E domain \in blocked_domains : domain = Domain(url)

Statuses == {"200", "403", "429", "500", "timeout", "error"}
DefaultMaxRetries == 2      \* line 108

\* the loop of get_page_content_with_retry from `attempt` on.  responses[n] is
\* the answer to the n-th request; requests: the answers received so far.
RECURSIVE RetryFrom(_, _, _, _, _)
RetryFrom(responses, page, max_retries, attempt, requests) ==
    IF attempt >= max_retries
    THEN [content |-> <<>>, requests |-> requests, raised |-> FALSE]
    ELSE LET status == responses[attempt + 1]
             sent == Append(requests, status)
             giveUp == [content |-> <<>>, requests |-> sent, raised |-> FALSE]
         IN  CASE status = "200" ->
                      [content |-> page, requests |-> sent, raised |-> FALSE]
               [] status = "403" -> giveUp
               [] status = "429" ->
                      RetryFrom(responses, page, max_retries, attempt + 1, sent)
               [] OTHER ->
                      IF attempt = max_retries - 1 THEN giveUp
                      ELSE RetryFrom(responses, page, max_retries, attempt + 1, sent)

\* a loop that treats 403 like any other HTTP error
RECURSIVE RetryFrom_403Retried(_, _, _, _, _)
RetryFrom_403Retried(responses, page, max_retries, attempt, requests) ==
    IF attempt >= max_retries
    THEN [content |-> <<>>, requests |-> requests, raised |-> FALSE]
    ELSE LET status == responses[attempt + 1]
             sent == Append(requests, status)
         IN  IF status = "200"
             THEN [content |-> page, requests |-> sent, raised |-> FALSE]
             ELSE RetryFrom_403Retried(responses, page, max_retries, attempt + 1, sent)

\* a fetch without the handler for exceptions other than HTTPError and Timeout
RECURSIVE RetryFrom_NoCatchAll(_, _, _, _, _)
RetryFrom_NoCatchAll(responses, page, max_retries, attempt, requests) ==
    IF attempt >= max_retries
    THEN [content |-> <<>>, requests |-> requests, raised |-> FALSE]
    ELSE LET status == responses[attempt + 1]
             sent == Append(requests, status)
             giveUp == [content |-> <<>>, requests |-> sent, raised |-> FALSE]
         IN  CASE status = "200" ->
                      [content |-> page, requests |-> sent, raised |-> FALSE]
               [] status = "403" -> giveUp
               [] status = "error" ->
                      [content |-> <<>>, requests |-> sent, raised |-> TRUE]
               [] status = "429" ->
                      RetryFrom_NoCatchAll(responses, page, max_retries, attempt + 1, sent)
               [] OTHER ->
                      IF attempt = max_retries - 1 THEN giveUp
                      ELSE RetryFrom_NoCatchAll(responses, page, max_retries,
                                                attempt + 1, sent)

get_page_content_with_retry_403Retried(responses, page, max_retries) ==
    RetryFrom_403Retried(responses, page, max_retries, 0, <<>>)

get_page_content_with_retry_NoCatchAll(responses, page, max_retries) ==
    RetryFrom_NoCatchAll(responses, page, max_retries, 0, <<>>)

\* WebSearch.get_page_content_with_retry(url, max_retries).  page: the text
\* extracted from a 200 answer, cut to 4000 characters.
get_page_content_with_retry(responses, page, max_retries) ==
    RetryFrom(responses, page, max_retries, 0, <<>>)

(***************************************************************************)
(* WebSearch.get_destination_info (lines 182-240).  The web is a record:    *)
(* responses[url][n] answers the n-th request for url, page[url] is the     *)
(* text of its 200 answer.  A search answers with a list of hits or raises. *)
(* Texts are sequences of characters; a word of one character stands for a  *)
(* word of the real text.                                                   *)
(***************************************************************************)
NumSearchQueries == 6       \* lines 190-197
max_sources == 3            \* line 201
Dashes == <<45>>            \* "---"
SourceLabel == <<83>>       \* "Source:"
CouldNot == <<67>>          \* "Could not retrieve current information about"
UsingGeneral == <<85>>      \* "Using general knowledge."

Title(url) == CASE url = "u1" -> <<76>> [] url = "u2" -> <<87>> [] OTHER -> <<66>>
Hit(url) == [href |-> url, title |-> Title(url)]

\* f"--- Source: {result['title']} ---\n{content}\n\n"
SourceBlock(title, content) ==
    Dashes \o <<Space>> \o SourceLabel \o <<Space>> \o title \o <<Space>> \o Dashes
        \o <<Newline>> \o content \o <<Newline, Newline>>

\* f"Could not retrieve current information about {destination}. Using general knowledge."
NoInformation(destination) ==
    CouldNot \o <<Space>> \o destination \o <<Space>> \o UsingGeneral

\* the hits of one query, without the test of line 214 that ends the loop
\* once max_sources pages were taken
RECURSIVE ResultsFrom_NoInnerBreak(_, _, _, _, _)
ResultsFrom_NoInnerBreak(acc, results, i, world, fault) ==
    IF i > Len(results) THEN acc
    ELSE LET url == results[i].href
         IN  IF is_blocked_domain(url)
             THEN ResultsFrom_NoInnerBreak(acc, results, i + 1, world, fault)
             ELSE LET f == get_page_content_with_retry(world.responses[url],
                                                       world.page[url], DefaultMaxRetries)
                      r == get_page_content(acc.web, url, f.content, fault)
                      call == [url |-> url,
                               requests |-> IF r.fetched THEN f.requests ELSE <<>>,
                               content |-> r.content,
                               taken |-> acc.successful_fetches]
                      took == r.content /= <<>>
                  IN  ResultsFrom_NoInnerBreak(
                             [web |-> r.web,
                              all_content |-> IF took
                                  THEN acc.all_content \o SourceBlock(results[i].title, r.content)
                                  ELSE acc.all_content,
                              successful_fetches |-> acc.successful_fetches
                                                        + (IF took THEN 1 ELSE 0),
                              fetches |-> Append(acc.fetches, call),
                              searched |-> acc.searched,
                              raised |-> FALSE],
                             results, i + 1, world, fault)

\* the hits of one query from the i-th on (lines 213-229).  acc.fetches lists
\* the get_page_content calls: the URL, the answers to the requests made, the
\* content returned and the sources taken before the call.
RECURSIVE ResultsFrom(_, _, _, _, _)
ResultsFrom(acc, results, i, world, fault) ==
    IF i > Len(results) \/ acc.successful_fetches >= max_sources THEN acc
    ELSE LET url == results[i].href
         IN  IF is_blocked_domain(url)
             THEN ResultsFrom(acc, results, i + 1, world, fault)
             ELSE LET f == get_page_content_with_retry(world.responses[url],
                                                       world.page[url], DefaultMaxRetries)
                      r == get_page_content(acc.web, url, f.content, fault)
                      call == [url |-> url,
                               requests |-> IF r.fetched THEN f.requests ELSE <<>>,
                               content |-> r.content,
                               taken |-> acc.successful_fetches]
                      took == r.content /= <<>>
                  IN  IF r.fetched /\ f.raised
                      THEN [acc EXCEPT !.fetches = Append(@, call), !.raised = TRUE]
                      ELSE ResultsFrom(
                             [web |-> r.web,
                              all_content |-> IF took
                                  THEN acc.all_content \o SourceBlock(results[i].title, r.content)
                                  ELSE acc.all_content,
                              successful_fetches |-> acc.successful_fetches
                                                        + (IF took THEN 1 ELSE 0),
                              fetches |-> Append(acc.fetches, call),
                              searched |-> acc.searched,
                              raised |-> FALSE],
                             results, i + 1, world, fault)

\* the queries from the q-th on (lines 203-233): a raise inside the try of one
\* query ends that query only
RECURSIVE QueriesFrom(_, _, _, _, _)
QueriesFrom(acc, searches, q, world, fault) ==
    IF q > Len(searches) \/ acc.successful_fetches >= max_sources THEN acc
    ELSE LET asked == [acc EXCEPT !.searched = @ + 1]
         IN  IF searches[q].raised
             THEN QueriesFrom(asked, searches, q + 1, world, fault)
             ELSE LET a == ResultsFrom(asked, searches[q].results, 1, world, fault)
                  IN  QueriesFrom([a EXCEPT !.raised = FALSE], searches, q + 1,
                                  world, fault)

\* WebSearch.get_destination_info(destination).  searches[q]: the answer of
\* the q-th search; fault: what goes wrong in save_cache.
get_destination_info(w, destination, searches, world, fault) ==
    LET a == QueriesFrom([web |-> w, all_content |-> <<>>, successful_fetches |-> 0,
                          fetches |-> <<>>, searched |-> 0, raised |-> FALSE],
                         searches, 1, world, fault)
    IN  [web |-> a.web,
         info |-> IF a.all_content = <<>> THEN NoInformation(destination)
                  ELSE a.all_content,
         successful_fetches |-> a.successful_fetches,
         fetches |-> a.fetches,
         searched |-> a.searched,
         raised |-> FALSE]

(***************************************************************************)
(* rag.gather_corpus (src/src/rag.py lines 26-71): one search, pages        *)
(* fetched with one request each and no cache, every page chunked by itself.*)
(***************************************************************************)
RagChunkWords == 220        \* line 42
RagOverlapWords == 40       \* line 42
top_sources == 3            \* line 53

\* rag.fetch_page_text(url): any exception gives ""
fetch_page_text(status, page) ==
    [content |-> IF status = "200" THEN page ELSE <<>>,
     requests |-> <<status>>, raised |-> FALSE]

\* the hits from the i-th on (lines 57-70)
RECURSIVE CorpusFrom(_, _, _, _)
CorpusFrom(acc, results, i, world) ==
    IF i > Len(results) \/ acc.used >= top_sources THEN acc
    ELSE LET url == results[i].href
             f == fetch_page_text(world.responses[url][1], world.page[url])
             call == [url |-> url, requests |-> f.requests, content |-> f.content,
                      taken |-> acc.used]
             chunks == rag_chunk_text(f.content, RagChunkWords, RagOverlapWords)
         IN  IF f.content = <<>>
             THEN CorpusFrom([acc EXCEPT !.fetches = Append(@, call)],
                             results, i + 1, world)
             ELSE CorpusFrom(
                      [corpus |-> acc.corpus \o [c \in 1..Len(chunks) |-> <<chunks[c], url>>],
                       used |-> acc.used + 1,
                       fetches |-> Append(acc.fetches, call)],
                      results, i + 1, world)

\* rag.gather_corpus(query, top_sources).  answer: the answer of ddg_search,
\* which is [] when the search raises.
gather_corpus(answer, world) ==
    LET results == IF answer.raised THEN <<>> ELSE answer.results
        a == CorpusFrom([corpus |-> <<>>, used |-> 0, fetches |-> <<>>], results, 1, world)
    IN  [corpus |-> a.corpus, used |-> a.used, fetches |-> a.fetches, raised |-> FALSE]

(***************************************************************************)
(* The calls a client of the two stores makes, and their arguments.        *)
(***************************************************************************)
TA == <<1>>
TB == <<2>>
Batches == {<<>>, <<TA>>, <<TA, TB>>}
Queries == {<<1>>, <<5>>}
Destinations == {<<7>>}

\* a page of n words
Page(n) == join(<<Space>>, [i \in 1..n |-> <<1 + (i % 3)>>])
Pages == {Page(n) : n \in 0..MaxPageWords}

\* the metadata arguments tried with a batch: None, [], a list of the batch's
\* length, a list one shorter
MetaList(n) == [i \in 1..n |-> [destination |-> <<7>>, chunk_id |-> i - 1]]
MetaChoices(texts) ==
    {None, Some(<<>>), Some(MetaList(Len(texts)))}
        \cup (IF Len(texts) > 1 THEN {Some(MetaList(Len(texts) - 1))} ELSE {})
NoMeta(texts) == {None}

Corpora == {<<>>, <<<<TA, <<61>>>>, <<TB, <<62>>>>>>}

\* the state of the index as its client sees it (spec 3, "Index": empty,
\* accumulating, built)
HasForest(ixo) == ixo /= None /\ (the(ixo).built \/ the(ixo).loaded)
Phase(s) == [empty |-> Len(s.documents) = 0, forest |-> HasForest(s.index)]
MemPhase(m) == [empty |-> Len(m.chunks) = 0, forest |-> HasForest(m.index)]
NoPhase == [empty |-> TRUE, forest |-> FALSE]

Called(op, raised) ==
    [op |-> op, k |-> 0, pre |-> NoPhase, results |-> <<>>, raised |-> raised]

SetStore(s) ==
    /\ index' = s.index
    /\ documents' = s.documents
    /\ document_metadata' = s.document_metadata
    /\ dimension' = s.dimension
    /\ is_built' = s.is_built

storeVars == <<index, documents, document_metadata, dimension, is_built>>

NoChunkCall == [text |-> <<>>, window |-> 1, overlap |-> 0]

Init ==
    /\ index = NewStore.index
    /\ documents = NewStore.documents
    /\ document_metadata = NewStore.document_metadata
    /\ dimension = NewStore.dimension
    /\ is_built = NewStore.is_built
    /\ disk = [ann |-> None, pkl |-> None]
    /\ mem = NewMem
    /\ chunk_in = NoChunkCall
    /\ web = NewWebSearch
    /\ cache_dir = EmptyCacheDir
    /\ last = Called("init", FALSE)

\* a create_embeddings call with a batch of `batches` and a metadata argument
\* of MetaChoices(batch), or None only, while the store holds at most `cap`
\* documents
CreateEmbeddingsOf(batches, withMetadata, cap) ==
    \E texts \in batches :
    \E metadata \in (IF withMetadata THEN MetaChoices(texts) ELSE NoMeta(texts)) :
    \E accept \in BOOLEAN :
        /\ Len(documents) + Len(texts) <= cap
        /\ LET r == create_embeddings(Store, texts, metadata, accept)
           IN  /\ SetStore(r.store)
               /\ last' = Called("create_embeddings", r.raised)
        /\ UNCHANGED <<disk, mem, chunk_in, web, cache_dir>>

CreateEmbeddings == CreateEmbeddingsOf(Batches, TRUE, MaxDocs)

BuildIndex ==
    /\ SetStore(build_index(Store))
    /\ last' = Called("build_index", FALSE)
    /\ UNCHANGED <<disk, mem, chunk_in, web, cache_dir>>

Search ==
    \E query \in Queries : \E k \in 0..MaxK : \E fault \in BOOLEAN :
    \E cand \in Candidates(index) :
        LET r == search(Store, query, k, cand, fault)
        IN  /\ last' = [op |-> "search", k |-> k, pre |-> Phase(Store),
                        results |-> r.results, raised |-> r.raised]
            /\ UNCHANGED <<storeVars, disk, mem, chunk_in, web, cache_dir>>

ProcessDestinationInfo ==
    \E destination \in Destinations : \E info_text \in Pages : \E accept \in BOOLEAN :
        LET r == process_destination_info(Store, destination, info_text, accept)
        IN  /\ Len(r.store.documents) <= MaxDocs
            /\ SetStore(r.store)
            /\ last' = Called("process_destination_info", r.raised)
            /\ UNCHANGED <<disk, mem, chunk_in, web, cache_dir>>

MemBuild ==
    \E corpus \in Corpora :
        /\ mem' = InMemoryVectorStore_build(mem, corpus)
        /\ last' = Called("mem_build", FALSE)
        /\ UNCHANGED <<storeVars, disk, chunk_in, web, cache_dir>>

MemSearch ==
    \E query \in Queries : \E k \in 0..MaxK : \E fault \in BOOLEAN :
    \E cand \in Candidates(mem.index) :
        LET r == InMemoryVectorStore_search(mem, query, k, cand, fault)
        IN  /\ last' = [op |-> "mem_search", k |-> k, pre |-> MemPhase(mem),
                        results |-> r.results, raised |-> r.raised]
            /\ UNCHANGED <<storeVars, disk, mem, chunk_in, web, cache_dir>>

\* The two stores in memory: every call but save and load.
Next ==
    \/ CreateEmbeddings
    \/ BuildIndex
    \/ Search
    \/ ProcessDestinationInfo
    \/ MemBuild
    \/ MemSearch

Spec == Init /\ [][Next]_vars

(***************************************************************************)
(* Persistence: add, build, save, load and search on one store and one     *)
(* file path.                                                              *)
(***************************************************************************)
PersistBatches == {<<TA>>, <<TA, TB>>}

AddItemsCall == CreateEmbeddingsOf(PersistBatches, FALSE, MaxDocs)

\* save records the store it was called on, and whether it wrote
Save ==
    LET r == save(Store, disk)
    IN  /\ SetStore(r.store)
        /\ disk' = r.disk
        /\ last' = [op |-> "save", before |-> Store,
                    wrote |-> (index /= None /\ is_built),
                    interrupted |-> FALSE, raised |-> FALSE]
        /\ UNCHANGED <<mem, chunk_in, web, cache_dir>>

\* a save that stops between line 135 and line 138: the index file is
\* written, the pickle is the one that was there
SaveInterrupted ==
    LET r == save(Store, disk)
    IN  /\ index /= None /\ is_built
        /\ SetStore(r.store)
        /\ disk' = [ann |-> r.disk.ann, pkl |-> disk.pkl]
        /\ last' = [op |-> "save", before |-> Store, wrote |-> FALSE,
                    interrupted |-> TRUE, raised |-> TRUE]
        /\ UNCHANGED <<mem, chunk_in, web, cache_dir>>

\* files at the path that a store of another embedding model wrote
ForeignDimension == 768
ForeignArtifacts ==
    /\ disk' = [ann |-> Some([f |-> ForeignDimension, items |-> <<encode(TA)>>,
                              cover |-> 1]),
                pkl |-> Some([documents |-> <<TA>>, metadata |-> EmptyDicts(1),
                              dimension |-> ForeignDimension])]
    /\ last' = Called("foreign_artifacts", FALSE)
    /\ UNCHANGED <<storeVars, mem, chunk_in, web, cache_dir>>

\* load records the store it was called on, the fault it met and, when it
\* directly follows a save that wrote, the store that save was called on
Load ==
    \E fault \in {"none", "pkl", "ann"} :
        LET r == load(Store, disk, fault)
        IN  /\ SetStore(r.store)
            /\ last' = [op |-> "load", fault |-> fault, pre |-> Phase(Store),
                        saved |-> IF last.op = "save" /\ last.wrote
                                  THEN Some(last.before) ELSE None,
                        torn |-> (last.op = "save" /\ last.interrupted),
                        raised |-> r.raised]
            /\ UNCHANGED <<disk, mem, chunk_in, web, cache_dir>>

NextPersist ==
    \/ AddItemsCall
    \/ BuildIndex
    \/ Save
    \/ SaveInterrupted
    \/ ForeignArtifacts
    \/ Load
    \/ Search
    \/ MemBuild
    \/ MemSearch

SpecPersist == Init /\ [][NextPersist]_vars

(***************************************************************************)
(* KnowledgeProcessor (src/src/knowledge_processor.py).                    *)
(***************************************************************************)
PerQueryK == 3      \* line 55: search(query, 3)
ScoreFloor == 24    \* line 58: 0.6, times 40
MaxChunks == 15     \* line 62: all_results[:15]

\* the literal parts of the f-strings of lines 29-50, one code for each
LitBestAttractionsIn == <<41>>
LitHotelsAccommodationIn == <<42>>
LitLocalFoodRestaurantsIn == <<43>>
LitTransportationOptionsFrom == <<44>>
LitTo == <<45>>
LitTransportationOptionsIn == <<46>>
LitCulturalTipsFor == <<47>>
LitCurrentEventsIn == <<48>>
Lit2024 == <<49>>
LitEntryRequirementsFor == <<50>>
LitVisaRequirementsFor == <<51>>
LitIn == <<52>>

Sp == <<Space>>

\* f"{x} in {destination}"
InDestination(x, destination) == x \o Sp \o LitIn \o Sp \o destination

\* lines 28-50: the sub-queries, in order
queries(u) ==
    <<LitBestAttractionsIn \o Sp \o u.destination,
      LitHotelsAccommodationIn \o Sp \o u.destination \o Sp \o u.accommodation_style,
      LitLocalFoodRestaurantsIn \o Sp \o u.destination,
      LitTransportationOptionsFrom \o Sp \o u.source \o Sp \o LitTo \o Sp \o u.destination,
      LitTransportationOptionsIn \o Sp \o u.destination,
      LitCulturalTipsFor \o Sp \o u.destination,
      LitCurrentEventsIn \o Sp \o u.destination \o Sp \o Lit2024,
      LitEntryRequirementsFor \o Sp \o u.destination,
      LitVisaRequirementsFor \o Sp \o u.destination>>
    \o [i \in 1..Len(u.interests) |-> InDestination(u.interests[i], u.destination)]
    \o [i \in 1..Len(u.accommodation_type) |->
            InDestination(u.accommodation_type[i], u.destination)]
    \o (IF u.preferences /= <<>>
        THEN <<InDestination(u.preferences, u.destination)>> ELSE <<>>)

InSeq(x, seq) == \E i \in 1..Len(seq) : seq[i] = x

\* admissions that differ from line 58: the floor itself admitted, no
\* membership test, no floor
Admit_FloorIncluded(all_results, doc, score) ==
    ~InSeq(doc, all_results) /\ score >= ScoreFloor
Admit_NoMembershipTest(all_results, doc, score) == score > ScoreFloor
Admit_NoFloor(all_results, doc, score) == ~InSeq(doc, all_results)

\* line 58: doc not in all_results and score > 0.6
Admit(all_results, doc, score) == ~InSeq(doc, all_results) /\ score > ScoreFloor

\* lines 56-59: one sub-query's results added to all_results; scores keeps,
\* beside each admitted chunk, the score of the hit that admitted it
RECURSIVE GatherResults(_, _)
GatherResults(acc, results) ==
    IF results = <<>> THEN acc
    ELSE LET r == Head(results)
         IN  IF Admit(acc.all_results, r.doc, r.score)
             THEN GatherResults([all_results |-> Append(acc.all_results, r.doc),
                                 scores |-> Append(acc.scores, r.score)],
                                Tail(results))
             ELSE GatherResults(acc, Tail(results))

\* line 55: the k each sub-query is searched with
SearchK(k) == PerQueryK

\* lines 53-59: the loop over the sub-queries.  hits and search_k record what
\* each search was asked and what it returned; faulty holds the positions of
\* the sub-queries for which the encoder raises; a search that raises ends
\* the loop.
RECURSIVE GatherQueries(_, _, _, _, _)
GatherQueries(s, qs, k, acc, faulty) ==
    IF qs = <<>> \/ acc.raised THEN acc
    ELSE LET r == search(s, Head(qs), SearchK(k), Items(the(s.index)),
                         (Len(acc.hits) + 1) \in faulty)
             g == GatherResults([all_results |-> acc.all_results,
                                 scores |-> acc.scores], r.results)
         IN  GatherQueries(s, Tail(qs), k,
                 [all_results |-> g.all_results, scores |-> g.scores,
                  hits |-> Append(acc.hits, r.results),
                  search_k |-> Append(acc.search_k, SearchK(k)),
                  raised |-> r.raised],
                 faulty)

\* a return that joins everything admitted
Truncate_None(all_results) == all_results

\* line 62: all_results[:15]
Truncate(all_results) == Slice(all_results, 0, MaxChunks)

\* KnowledgeProcessor.get_relevant_info(user_input, k)
get_relevant_info(s, user_input, k, faulty) ==
    LET g == GatherQueries(s, queries(user_input), k,
                 [all_results |-> <<>>, scores |-> <<>>, hits |-> <<>>,
                  search_k |-> <<>>, raised |-> FALSE], faulty)
    IN  [hits |-> g.hits, search_k |-> g.search_k,
         all_results |-> g.all_results,
         chunks |-> Truncate(g.all_results),
         scores |-> Slice(g.scores, 0, MaxChunks),
         out |-> join(<<Newline, Newline>>, Truncate(g.all_results)),
         raised |-> g.raised]

\* KnowledgeProcessor.process_destination(destination, info_text)
process_destination(s, destination, info_text, accept) ==
    process_destination_info(s, destination, info_text, accept)

\* The store of a KnowledgeProcessor is filled through process_destination, as
\* app.py does on a new KnowledgeProcessor, or through its vector_store.
SmallCorpus == <<<<5>>, <<6>>, <<14>>, <<22>>>>
BigCorpus == [i \in 1..BigCorpusSize |-> <<22 + i>>]
KPBatches == {SmallCorpus, BigCorpus}

UserInputs ==
    [destination : {<<8>>},
     source : {<<>>},
     interests : {<<>>, <<<<4>>, <<1>>>>},
     preferences : {<<>>, <<3>>},
     accommodation_style : {<<>>},
     accommodation_type : {<<>>, <<<<2>>>>}]
KValues == {3, 8}
\* the sub-queries whose encoding raises: none, the second, all
MaxQueries == 13
FaultySets == {{}, {2}, 1..MaxQueries}

KPCreateEmbeddings == CreateEmbeddingsOf(KPBatches, FALSE, MaxKPDocs)

ProcessDestination ==
    \E destination \in Destinations : \E info_text \in Pages : \E accept \in BOOLEAN :
        /\ documents = <<>>
        /\ LET r == process_destination(Store, destination, info_text, accept)
           IN  /\ SetStore(r.store)
               /\ last' = Called("process_destination", r.raised)
        /\ UNCHANGED <<disk, mem, chunk_in, web, cache_dir>>

\* a get_relevant_info call with an input of `inputs`, a k of `ks` and the
\* encoder failing for the sub-queries of one set of `faultySets`
GetRelevantInfoOf(inputs, ks, faultySets) ==
    \E user_input \in inputs : \E k \in ks : \E faulty \in faultySets :
        LET r == get_relevant_info(Store, user_input, k, faulty)
        IN  /\ last' = [op |-> "get_relevant_info", k |-> k, hits |-> r.hits,
                        search_k |-> r.search_k, all_results |-> r.all_results,
                        chunks |-> r.chunks, scores |-> r.scores, out |-> r.out,
                        pre |-> Phase(Store), faulty |-> faulty,
                        raised |-> r.raised]
            /\ UNCHANGED <<storeVars, disk, mem, chunk_in, web, cache_dir>>

GetRelevantInfo == GetRelevantInfoOf(UserInputs, KValues, {{}})

NextKP ==
    \/ KPCreateEmbeddings
    \/ BuildIndex
    \/ ProcessDestination
    \/ GetRelevantInfo

SpecKP == Init /\ [][NextKP]_vars

\* get_relevant_info on the store of a KnowledgeProcessor in every state its
\* vector_store can be brought to, save_knowledge and load_knowledge included
StoreUserInputs ==
    {u \in UserInputs : u.interests = <<>> /\ u.accommodation_type = <<>>}
StoreGetRelevantInfo == GetRelevantInfoOf(StoreUserInputs, {8}, FaultySets)

NextKPStore ==
    \/ CreateEmbeddings
    \/ BuildIndex
    \/ Save
    \/ Load
    \/ StoreGetRelevantInfo

SpecKPStore == Init /\ [][NextKPStore]_vars

(***************************************************************************)
(* The two chunkers as functions of their arguments.                       *)
(***************************************************************************)
Chars == {Space, 1, 2}
Texts == UNION {[1..n -> Chars] : n \in 0..MaxTextLen}

InitChunk ==
    /\ index = NewStore.index
    /\ documents = NewStore.documents
    /\ document_metadata = NewStore.document_metadata
    /\ dimension = NewStore.dimension
    /\ is_built = NewStore.is_built
    /\ disk = [ann |-> None, pkl |-> None]
    /\ mem = NewMem
    /\ chunk_in \in [text : Texts, window : 1..MaxWindow, overlap : 0..MaxWindow]
    /\ web = NewWebSearch
    /\ cache_dir = EmptyCacheDir
    /\ last = Called("init", FALSE)

RagChunkText ==
    /\ last' = [op |-> "rag_chunk_text",
                chunks |-> rag_chunk_text(chunk_in.text, chunk_in.window, chunk_in.overlap),
                raised |-> FALSE]
    /\ UNCHANGED <<storeVars, disk, mem, chunk_in, web, cache_dir>>

ChunkText ==
    LET r == chunk_text(chunk_in.text, chunk_in.window, chunk_in.overlap)
    IN  /\ last' = [op |-> "chunk_text", chunks |-> r.chunks, raised |-> r.raised]
        /\ UNCHANGED <<storeVars, disk, mem, chunk_in, web, cache_dir>>

NextChunk ==
    \/ RagChunkText
    \/ ChunkText

SpecChunk == InitChunk /\ [][NextChunk]_vars

(***************************************************************************)
(* The page-fetch cache: page fetches, the passing of time, and a new       *)
(* WebSearch (app.py creates one on every run of the script).              *)
(***************************************************************************)
MaxClock == 172802
Delays == {TTL - 1, TTL, TTL + 1}
PageTexts == {<<>>, <<1>>, <<2>>}
SaveFaults == {"none", "open", "dump"}
PageUrls == {"u1", "u2"}

\* the age of the entry of url, -1 when there is none
Age(w, url) == IF w.cache[url] = None THEN -1 ELSE w.now - the(w.cache[url]).timestamp

GetPageContent ==
    \E url \in PageUrls : \E page \in PageTexts : \E fault \in SaveFaults :
        LET r == get_page_content(web, url, page, fault)
        IN  /\ web' = r.web
            /\ last' = [op |-> "get_page_content", url |-> url, page |-> page,
                        fault |-> fault, before |-> web,
                        cached |-> get_cached_content(web, url),
                        content |-> r.content, fetched |-> r.fetched,
                        raised |-> r.raised]
            /\ UNCHANGED <<storeVars, disk, mem, chunk_in, cache_dir>>

Tick ==
    \E d \in Delays :
        /\ web.now + d <= MaxClock
        /\ web' = [web EXCEPT !.now = @ + d]
        /\ last' = Called("tick", FALSE)
        /\ UNCHANGED <<storeVars, disk, mem, chunk_in, cache_dir>>

WebSearchInit ==
    /\ web' = [web EXCEPT !.cache = load_cache(web.file)]
    /\ last' = Called("WebSearch", FALSE)
    /\ UNCHANGED <<storeVars, disk, mem, chunk_in, cache_dir>>

NextWeb ==
    \/ GetPageContent
    \/ Tick
    \/ WebSearchInit

SpecWeb == Init /\ [][NextWeb]_vars

(***************************************************************************)
(* Fetching: get_page_content_with_retry called with every run of answers.  *)
(***************************************************************************)
MaxRetries == 3
FetchedPages == {<<1>>}

\* the runs of n answers
ResponseRuns(n) == [1..n -> Statuses]

GetPageContentWithRetry ==
    \E max_retries \in 0..MaxRetries : \E page \in FetchedPages :
    \E responses \in ResponseRuns(max_retries) :
        LET r == get_page_content_with_retry(responses, page, max_retries)
        IN  /\ last' = [op |-> "get_page_content_with_retry",
                        max_retries |-> max_retries, responses |-> responses,
                        page |-> page, content |-> r.content,
                        requests |-> r.requests, raised |-> r.raised]
            /\ UNCHANGED <<storeVars, disk, mem, chunk_in, web, cache_dir>>

NextRetry ==
    \/ GetPageContentWithRetry

SpecRetry == Init /\ [][NextRetry]_vars

(***************************************************************************)
(* Gathering a corpus: the two passes, over a web in which each page        *)
(* answers in one of a few ways and each search in one of a few ways.       *)
(***************************************************************************)
Raises == [raised |-> TRUE, results |-> <<>>]
Answer(urls) == [raised |-> FALSE, results |-> [i \in 1..Len(urls) |-> Hit(urls[i])]]
SearchAnswers == {Raises, Answer(<<"b1", "u1">>), Answer(<<"u1", "b1", "u2">>)}
RagSearchAnswers ==
    SearchAnswers \cup {Answer(<<>>), Answer(<<"u1", "u2", "u1", "u2", "u1">>)}

PageAnswers ==
    {<<"200", "200">>, <<"429", "200">>, <<"403", "200">>, <<"timeout", "error">>,
     <<"429", "429">>, <<"500", "500">>}
OtherPageAnswers == {<<"200", "200">>, <<"error", "timeout">>}
PageOf == [u1 |-> <<1>>, u2 |-> <<2>>, b1 |-> <<3>>]

\* the webs: the page of the blocked domain would answer every request
Worlds ==
    {[responses |-> [u \in Urls |-> IF u = "u1" THEN r1
                                    ELSE IF u = "u2" THEN r2 ELSE <<"200", "200">>],
      page |-> PageOf] : r1 \in PageAnswers, r2 \in OtherPageAnswers}

\* the answers of the six searches of one get_destination_info call
SearchRuns ==
    {[q \in 1..NumSearchQueries |-> IF q % 2 = 1 THEN a ELSE b] :
        a \in SearchAnswers, b \in SearchAnswers}

PassFaults == {"none", "dump"}

GetDestinationInfo ==
    \E destination \in Destinations : \E searches \in SearchRuns :
    \E world \in Worlds : \E fault \in PassFaults :
        LET r == get_destination_info(web, destination, searches, world, fault)
        IN  /\ web' = r.web
            /\ last' = [op |-> "get_destination_info", destination |-> destination,
                        searches |-> searches, world |-> world, before |-> web,
                        info |-> r.info, successful_fetches |-> r.successful_fetches,
                        fetches |-> r.fetches, searched |-> r.searched,
                        raised |-> r.raised]
            /\ UNCHANGED <<storeVars, disk, mem, chunk_in, cache_dir>>

GatherCorpus ==
    \E answer \in RagSearchAnswers : \E world \in Worlds :
        LET r == gather_corpus(answer, world)
        IN  /\ last' = [op |-> "gather_corpus", answer |-> answer, world |-> world,
                        corpus |-> r.corpus, used |-> r.used, fetches |-> r.fetches,
                        raised |-> r.raised]
            /\ UNCHANGED <<storeVars, disk, mem, chunk_in, web, cache_dir>>

NextFetch ==
    \/ GetDestinationInfo
    \/ GatherCorpus

SpecFetch == Init /\ [][NextFetch]_vars

(***************************************************************************)
(* ItineraryGenerator (src/src/ai_integration.py).  A string the generator  *)
(* handles is a record: the branch that made it, and which of the words     *)
(* "Error", "timed out", "loading" occur in it.  The answer of one chat     *)
(* completion call is its content, a response without choices, or an        *)
(* exception whose message decides the branch of lines 339-352.             *)
(***************************************************************************)
models ==                   \* lines 25-30
    <<[name |-> "Mixtral-8x7B-Instruct-v0.1", retries |-> 2],
      [name |-> "Mistral-7B-Instruct-v0.2", retries |-> 2],
      [name |-> "zephyr-7b-beta", retries |-> 2],
      [name |-> "flan-t5-xxl", retries |-> 1]>>

ErrorWords == {"Error", "timed out", "loading"}     \* line 294

ApiAnswers ==
    {"content", "content mentioning loading", "empty content", "no choices",
     "401", "404", "503", "timeout", "other exception",
     "other exception naming an Error"}

Str(kind, words) == [kind |-> kind, words |-> words]

\* ItineraryGenerator._try_chat_completion(model, messages)
try_chat_completion(model, answer) ==
    CASE answer = "content" -> Str("itinerary", {})
      [] answer = "content mentioning loading" -> Str("itinerary", {"loading"})
      [] answer = "empty content" -> Str("empty", {})
      [] answer = "no choices" -> Str("no response", {})           \* line 332
      [] answer = "401" -> Str("authentication", {"Error"})         \* line 339
      [] answer = "404" -> Str("not found", {"Error"})              \* line 342
      [] answer = "503" -> Str("loading", {"loading"})              \* line 345
      [] answer = "timeout" -> Str("timeout", {"timed out"})        \* line 348
      [] answer = "other exception" -> Str("unexpected error", {})  \* line 351
      [] OTHER -> Str("unexpected error", {"Error"})

FailureKinds ==
    {"no response", "authentication", "not found", "loading", "timeout",
     "unexpected error"}

\* line 294: result and not any(error in result for error in [...])
Successful(result) == result.kind /= "empty" /\ result.words \cap ErrorWords = {}

\* the names _generate_fallback_itinerary has assigned when line 386 runs, and
\* the names lines 386-390 read
FallbackAssigned ==
    {"source", "destination", "currency", "days", "conversion_rates", "rate"}
FallbackRead == {"budget", "duration", "rate", "source", "destination", "currency"}

\* ItineraryGenerator._generate_fallback_itinerary(user_input): a NameError in
\* the try of lines 358-461 is caught at line 462
generate_fallback_itinerary(user_input) ==
    IF FallbackRead \subseteq FallbackAssigned
    THEN Str("fallback itinerary", {})
    ELSE Str("apology", {})

\* a generator that makes one attempt on each model
RECURSIVE AttemptsFrom_OnePerModel(_, _, _, _)
AttemptsFrom_OnePerModel(answers, m, attempt, log) ==
    IF m > Len(models) THEN [returned |-> None, log |-> log]
    ELSE LET result == try_chat_completion(models[m].name, answers[Len(log) + 1])
             made == Append(log, [model |-> m, attempt |-> attempt, result |-> result])
         IN  IF Successful(result) THEN [returned |-> Some(result), log |-> made]
             ELSE AttemptsFrom_OnePerModel(answers, m + 1, 0, made)

\* the loops of lines 285-305 from the attempt-th attempt on the m-th model
\* on.  answers[n]: the answer to the n-th call; log: the attempts made.
RECURSIVE AttemptsFrom(_, _, _, _)
AttemptsFrom(answers, m, attempt, log) ==
    IF m > Len(models) THEN [returned |-> None, log |-> log]
    ELSE IF attempt > models[m].retries THEN AttemptsFrom(answers, m + 1, 0, log)
    ELSE LET result == try_chat_completion(models[m].name, answers[Len(log) + 1])
             made == Append(log, [model |-> m, attempt |-> attempt, result |-> result])
         IN  IF Successful(result) THEN [returned |-> Some(result), log |-> made]
             ELSE AttemptsFrom(answers, m, attempt + 1, made)

\* ItineraryGenerator.generate_itinerary(user_input, relevant_info).
\* messages_fault: generate_chat_messages raises.
generate_itinerary(user_input, answers, messages_fault) ==
    IF messages_fault
    THEN [itinerary |-> generate_fallback_itinerary(user_input), attempts |-> <<>>,
          raised |-> FALSE]
    ELSE LET a == AttemptsFrom(answers, 1, 0, <<>>)
         IN  [itinerary |-> IF a.returned /= None THEN the(a.returned)
                            ELSE generate_fallback_itinerary(user_input),
              attempts |-> a.log, raised |-> FALSE]

\* the attempts a call can make: one per model and allowed retry
TotalAttempts == 11         \* lines 26-29: 3 + 3 + 3 + 2

\* the answers of the calls: content from the ok-th call on, before it the
\* answers f1 and f2 in turn
AnswerRun(ok, f1, f2) ==
    [n \in 1..TotalAttempts |->
        IF n >= ok THEN "content" ELSE IF n % 2 = 1 THEN f1 ELSE f2]
FailingAnswers == ApiAnswers \ {"content"}
AnswerRuns ==
    {AnswerRun(ok, f1, f2) : ok \in 1..(TotalAttempts + 1),
                             f1 \in FailingAnswers, f2 \in FailingAnswers}

(***************************************************************************)
(* The itinerary cache (src/utils/caching.py): one file per cache key,     *)
(* holding an itinerary and the time it expires.                            *)
(***************************************************************************)
CACHE_DURATION == 86400     \* line 7: timedelta(hours=24), in seconds

\* cache_itinerary(cache_key, itinerary)
cache_itinerary(dir, cache_key, itinerary, now) ==
    [dir EXCEPT ![cache_key] =
        Some([itinerary |-> itinerary, expires |-> now + CACHE_DURATION])]

\* get_cached_itinerary(cache_key): an expired file is removed
get_cached_itinerary(dir, cache_key, now) ==
    IF dir[cache_key] = None THEN [dir |-> dir, itinerary |-> None]
    ELSE IF now > the(dir[cache_key]).expires
    THEN [dir |-> [dir EXCEPT ![cache_key] = None], itinerary |-> None]
    ELSE [dir |-> dir, itinerary |-> Some(the(dir[cache_key]).itinerary)]

(***************************************************************************)
(* ItineraryGenerator.generate_itinerary called with every run of answers.  *)
(***************************************************************************)
SubmitInput ==
    [destination |-> <<8>>, source |-> <<9>>, interests |-> <<>>, preferences |-> <<>>,
     accommodation_style |-> <<>>, accommodation_type |-> <<>>]

GenerateItinerary ==
    \E answers \in AnswerRuns : \E messages_fault \in BOOLEAN :
        LET r == generate_itinerary(SubmitInput, answers, messages_fault)
        IN  /\ last' = [op |-> "generate_itinerary", answers |-> answers,
                        messages_fault |-> messages_fault,
                        itinerary |-> r.itinerary, attempts |-> r.attempts,
                        raised |-> r.raised]
            /\ UNCHANGED <<storeVars, disk, mem, chunk_in, web, cache_dir>>

NextGen ==
    \/ GenerateItinerary

SpecGen == Init /\ [][NextGen]_vars

(***************************************************************************)
(* The form submission of app.py (lines 306-406), as one run of the script: *)
(* the module creates a WebSearch, a KnowledgeProcessor and an              *)
(* ItineraryGenerator (lines 34-36), then the submitted branch runs.        *)
(***************************************************************************)
SubmitSearchRuns == {[q \in 1..NumSearchQueries |-> a] : a \in SearchAnswers}
SubmitWorlds ==
    {w \in Worlds : w.responses["u1"] \in {<<"200", "200">>, <<"403", "200">>}}
SubmitAnswerRuns ==
    {AnswerRun(1, "503", "503"), AnswerRun(3, "timeout", "other exception naming an Error"),
     AnswerRun(2, "no choices", "no choices"),
     AnswerRun(TotalAttempts + 1, "503", "timeout")}

\* check_cache(user_input) and the cache_key of line 344
CacheKey(user_input) == "k1"

Submit ==
    \E searches \in SubmitSearchRuns : \E world \in SubmitWorlds :
    \E answers \in SubmitAnswerRuns :
        LET user_input == SubmitInput
            cache_key == CacheKey(user_input)
            search_tool == [web EXCEPT !.cache = load_cache(web.file)]
            cached == get_cached_itinerary(cache_dir, cache_key, web.now)
            info == get_destination_info(search_tool, user_input.destination,
                                         searches, world, "none")
            kp == process_destination(NewStore, user_input.destination, info.info, TRUE)
            relevant == get_relevant_info(kp.store, user_input, 8, {})
            gen == generate_itinerary(user_input, answers, FALSE)
        IN  IF cached.itinerary /= None /\ the(cached.itinerary).kind /= "empty"
            THEN /\ SetStore(NewStore)
                 /\ web' = search_tool
                 /\ cache_dir' = cached.dir
                 /\ last' = [op |-> "submit", cached |-> cached.itinerary,
                             itinerary |-> the(cached.itinerary),
                             before |-> cache_dir, now |-> web.now,
                             world |-> world, sources |-> 0, info |-> <<>>,
                             fetches |-> <<>>, relevant |-> <<>>,
                             attempts |-> <<>>, raised |-> FALSE]
                 /\ UNCHANGED <<disk, mem, chunk_in>>
            ELSE /\ SetStore(kp.store)
                 /\ web' = info.web
                 /\ cache_dir' = IF kp.raised \/ relevant.raised THEN cached.dir
                                 ELSE cache_itinerary(cached.dir, cache_key,
                                                      gen.itinerary, web.now)
                 /\ last' = [op |-> "submit", cached |-> None,
                             itinerary |-> gen.itinerary,
                             before |-> cache_dir, now |-> web.now,
                             world |-> world, sources |-> info.successful_fetches,
                             info |-> info.info, fetches |-> info.fetches,
                             relevant |-> relevant.chunks,
                             attempts |-> gen.attempts,
                             raised |-> kp.raised \/ relevant.raised]
                 /\ UNCHANGED <<disk, mem, chunk_in>>

NextApp ==
    \/ Submit
    \/ Tick

SpecApp == Init /\ [][NextApp]_vars

(***************************************************************************)
(* Properties.                                                             *)
(***************************************************************************)
IsGRI == last.op = "get_relevant_info"
IsSearch == last.op \in {"search", "mem_search"}
IsChunk == last.op \in {"rag_chunk_text", "chunk_text"}

Count(x, seq) == Cardinality({i \in 1..Len(seq) : seq[i] = x})

\* C1: after create_embeddings calls (with or without a metadata list, of any
\* length) followed by build_index, documents, document_metadata and the
\* vectors added to the index are equally many.
C1_IndexAlignment ==
    last.op = "build_index" =>
        /\ Len(documents) = Len(document_metadata)
        /\ Len(documents) = (IF index = None THEN 0 ELSE Len(the(index).items))

\* The pipeline of spec 4.4 on the hits of the sub-queries: merge in
\* sub-query order, deduplicate by chunk text keeping the first occurrence,
\* drop the hits below the floor, keep 15, join with a blank line.
RECURSIVE DedupFirst(_, _)
DedupFirst(hits, seen) ==
    IF hits = <<>> THEN <<>>
    ELSE IF Head(hits).doc \in seen THEN DedupFirst(Tail(hits), seen)
    ELSE <<Head(hits)>> \o DedupFirst(Tail(hits), seen \cup {Head(hits).doc})

AtLeastFloor(h) == h.score >= ScoreFloor
AboveFloor(h) == h.score > ScoreFloor
DocsOf(hits) == [i \in 1..Len(hits) |-> hits[i].doc]
BlankLine == <<Newline, Newline>>

SpecPipeline(hits) ==
    join(BlankLine,
         Slice(DocsOf(SelectSeq(DedupFirst(Flatten(hits), {}), AtLeastFloor)), 0, MaxChunks))

\* the same steps with the floor applied first and a hit kept only when its
\* score is above the floor
FloorFirstPipeline(hits) ==
    join(BlankLine,
         Slice(DocsOf(DedupFirst(SelectSeq(Flatten(hits), AboveFloor), {})), 0, MaxChunks))

\* C2 as claimed: the output of get_relevant_info is the output of the
\* pipeline of spec 4.4 on the same hits.
C2_SpecPipeline == IsGRI => last.out = SpecPipeline(last.hits)

\* C2 as amended: the output is that of the pipeline which first drops every
\* hit whose score is not above 0.6, then deduplicates by chunk text keeping
\* the first remaining occurrence, then keeps the first 15.
C2_FloorFirstPipeline == IsGRI => last.out = FloorFirstPipeline(last.hits)

\* a call whose hits hold a chunk first below the floor and admitted later,
\* and a hit scoring exactly 0.6
C2_Witness ==
    /\ IsGRI
    /\ last.out /= <<>>
    /\ last.out /= SpecPipeline(last.hits)
    /\ \E i \in 1..Len(last.hits) : \E j \in 1..Len(last.hits[i]) :
           last.hits[i][j].score = ScoreFloor

\* the chunk texts that hits of two or more sub-queries share
SharedTexts(hits) ==
    {t \in UNION {{hits[i][j].doc : j \in 1..Len(hits[i])} : i \in 1..Len(hits)} :
        Cardinality({i \in 1..Len(hits) :
                        \E j \in 1..Len(hits[i]) : hits[i][j].doc = t}) >= 2}

HitAbove(hits, t) ==
    \E i \in 1..Len(hits) : \E j \in 1..Len(hits[i]) :
        hits[i][j].doc = t /\ hits[i][j].score > ScoreFloor

C4_ScoreFloor ==
    IsGRI => \A i \in 1..Len(last.chunks) :
        /\ last.scores[i] >= ScoreFloor
        /\ \E q \in 1..Len(last.hits) : \E j \in 1..Len(last.hits[q]) :
               /\ last.hits[q][j].doc = last.chunks[i]
               /\ last.hits[q][j].score = last.scores[i]

C4_Witness ==
    /\ IsGRI
    /\ last.chunks /= <<>>
    /\ \E q \in 1..Len(last.hits) : \E j \in 1..Len(last.hits[q]) :
           last.hits[q][j].score < ScoreFloor

\* the chunks of an evidence string: one more than its blank lines
NumChunks(out) ==
    IF out = <<>> THEN 0
    ELSE 1 + Cardinality({i \in 1..(Len(out) - 1) :
                             out[i] = Newline /\ out[i + 1] = Newline})

\* C5: the output of get_relevant_info holds at most 15 chunks.
C5_BoundedOutput ==
    IsGRI => NumChunks(last.out) <= MaxChunks /\ Len(last.chunks) = NumChunks(last.out)

C5_Witness ==
    IsGRI /\ Len(last.all_results) > MaxChunks /\ NumChunks(last.out) = MaxChunks

\* C6: every sub-query is searched with the k the caller passed.
C6_CallerK ==
    IsGRI => \A i \in 1..Len(last.search_k) : last.search_k[i] = last.k

\* C7: search returns at most k results, in order of non-increasing score,
\* every score between -1 and 1 (the range of 1 - d^2/2 for d in 0..2).
C7_SearchBounded ==
    IsSearch =>
        /\ Len(last.results) <= last.k
        /\ \A i \in 1..Len(last.results) : \A j \in 1..Len(last.results) :
               i < j => last.results[i].score >= last.results[j].score
        /\ \A i \in 1..Len(last.results) :
               -40 <= last.results[i].score /\ last.results[i].score <= 40

C7_Witness ==
    /\ last.op = "search"
    /\ last.pre.forest
    /\ last.k >= 2
    /\ Len(last.results) = last.k
    /\ last.results[1].score > last.results[2].score
    /\ last.results[2].score = -40

\* C8: search on a store that has no items, or whose items were added and
\* never built, returns the empty list and does not raise.
C8_EmptyStoreSafety ==
    (IsSearch /\ (last.pre.empty \/ ~last.pre.forest)) =>
        last.results = <<>> /\ ~last.raised

C8_Witness ==
    /\ last.op = "search"
    /\ ~last.pre.empty
    /\ ~last.pre.forest
    /\ last.k > 0
    /\ disk.pkl /= None

\* C9: whenever is_built is true, the forest of the index covers every
\* entry of documents.
C9_BuiltCoversAll ==
    is_built => index /= None /\ the(index).cover = Len(documents)

\* the words of the chunks with the leading overlap of every chunk but the
\* first removed
DeOverlapped(chunks, overlap) ==
    Flatten([j \in 1..Len(chunks) |->
                IF j = 1 THEN split(chunks[j])
                ELSE Slice(split(chunks[j]), overlap, Len(split(chunks[j])))])

\* C10: for overlap < window the chunks, each without its leading overlap,
\* concatenate to the words of the text, in order.
C10_ChunkCoverage ==
    (IsChunk /\ chunk_in.overlap < chunk_in.window) =>
        /\ ~last.raised
        /\ DeOverlapped(last.chunks, chunk_in.overlap) = split(chunk_in.text)

C10_Witness ==
    /\ last.op = "rag_chunk_text"
    /\ chunk_in.overlap >= 1
    /\ chunk_in.overlap < chunk_in.window
    /\ Len(last.chunks) >= 3
    /\ Len(split(chunk_in.text)) < Len(chunk_in.text)

\* C11: for a text of at least one word and fewer words than the window,
\* and every overlap below the window, the chunker returns exactly one chunk,
\* holding all the words of the text.
C11_SingleChunk ==
    (/\ IsChunk
     /\ chunk_in.overlap < chunk_in.window
     /\ split(chunk_in.text) /= <<>>
     /\ Len(split(chunk_in.text)) < chunk_in.window) =>
        /\ ~last.raised
        /\ Len(last.chunks) = 1
        /\ split(last.chunks[1]) = split(chunk_in.text)

\* the words of the text that some chunk holds
Covered(text, chunks) ==
    \A i \in 1..Len(split(text)) :
        \E j \in 1..Len(chunks) : InSeq(split(text)[i], split(chunks[j]))

\* C12: for overlap >= window the chunker does not raise and its chunks hold
\* every word of a text that has words.
C12_ClampedStride ==
    (IsChunk /\ chunk_in.overlap >= chunk_in.window /\ split(chunk_in.text) /= <<>>) =>
        ~last.raised /\ Covered(chunk_in.text, last.chunks)

IsLoad == last.op = "load"

StoreIsEmpty ==
    index = None /\ documents = <<>> /\ document_metadata = <<>> /\ ~is_built

\* C13: load directly after a save of a built store with at least one item,
\* reading both files without fault, yields a store whose search returns the
\* same chunks, scores and metadata as the saved store's, for every query,
\* every k and every set of items the forest search visits.
C13_SaveLoadRoundTrip ==
    (/\ IsLoad
     /\ last.fault = "none"
     /\ last.saved /= None
     /\ Len(the(last.saved).documents) >= 1) =>
        \A query \in Queries : \A k \in 0..MaxK : \A cand \in Candidates(index) :
            search(Store, query, k, cand, FALSE)
                = search(the(last.saved), query, k, cand, FALSE)

C13_Witness ==
    /\ IsLoad
    /\ last.fault = "none"
    /\ last.saved /= None
    /\ Len(the(last.saved).documents) >= 2
    /\ ~the(the(last.saved).index).loaded
    /\ \E query \in Queries :
           Len(search(Store, query, 2, Items(the(index)), FALSE).results) = 2

\* the load met a failure: a file is missing or reading it raised
LoadMetFailure ==
    last.fault /= "none" \/ disk.pkl = None \/ disk.ann = None

\* C14: load does not raise, and a load that meets a missing or unreadable
\* file leaves index None, documents and metadata empty and is_built false,
\* whatever the store held before.
C14_LoadFailsClean ==
    IsLoad => /\ ~last.raised
              /\ LoadMetFailure => StoreIsEmpty

C14_Witness ==
    /\ IsLoad
    /\ last.fault = "ann"
    /\ disk.pkl /= None /\ disk.ann /= None
    /\ ~last.pre.empty /\ last.pre.forest
    /\ StoreIsEmpty

BothReadable == last.fault = "none" /\ disk.pkl /= None /\ disk.ann /= None

\* the files disagree on the number of items
CountsDiffer ==
    \/ Len(the(disk.ann).items) /= Len(the(disk.pkl).documents)
    \/ Len(the(disk.pkl).documents) /= Len(the(disk.pkl).metadata)

\* C15: a load of two readable files that disagree on the number of vectors,
\* documents and metadata entries ends with an empty store.
C15_CountMismatchRejected ==
    (IsLoad /\ BothReadable /\ CountsDiffer) => StoreIsEmpty

\* C16: a load of readable files whose recorded dimension is not the
\* embedding model's ends with an empty store that is not built.
C16_ForeignDimensionRejected ==
    (IsLoad /\ BothReadable /\ the(disk.pkl).dimension /= EncoderDimension) =>
        StoreIsEmpty

\* position i of the index holds the vector of documents[i], which has its
\* metadata
Aligned ==
    /\ index /= None
    /\ Len(the(index).items) = Len(documents)
    /\ Len(document_metadata) = Len(documents)
    /\ \A i \in 1..Len(documents) : the(index).items[i] = encode(documents[i])

\* C17: a load directly after a save that was interrupted between the two
\* files yields an empty store or one whose index positions are those of its
\* documents and metadata.
C17_TornSaveDetected ==
    (IsLoad /\ last.torn) => (StoreIsEmpty \/ Aligned)

\* C18: get_relevant_info does not raise, whatever the state of the store and
\* whichever of its searches meet a failure, and returns the empty string
\* when no search returned a hit.
C18_NeverRaises ==
    IsGRI => /\ ~last.raised
             /\ Len(last.hits) = Len(last.search_k)
             /\ (\A i \in 1..Len(last.hits) : last.hits[i] = <<>>) => last.out = <<>>

\* a call on a loaded store for which the encoder fails on the second
\* sub-query and other sub-queries find chunks
C18_Witness ==
    /\ IsGRI
    /\ last.faulty = {2}
    /\ last.out /= <<>>
    /\ index /= None /\ the(index).loaded

IsGPC == last.op = "get_page_content"

\* the entry the cache held for the url of the call, and its age, at the call
EntryBefore == last.before.cache[last.url]
AgeBefore == Age(last.before, last.url)

\* C19 as claimed: an entry older than 24 hours gives None from
\* get_cached_content and a fetch from get_page_content; an entry not older
\* than 24 hours is returned without a fetch.
C19_ExpiryAt24h ==
    (IsGPC /\ EntryBefore /= None) =>
        /\ AgeBefore > TTL => (last.cached = None /\ last.fetched)
        /\ AgeBefore <= TTL =>
               (~last.fetched /\ last.content = the(EntryBefore).content)

\* C19 as amended: an entry of age 24 hours or more gives None and a fetch;
\* an entry younger than 24 hours is returned without a fetch, and the cache
\* and its file are left as they were.
C19_ExpiryFrom24h ==
    (IsGPC /\ EntryBefore /= None) =>
        /\ AgeBefore >= TTL => (last.cached = None /\ last.fetched)
        /\ AgeBefore < TTL =>
               /\ ~last.fetched
               /\ last.content = the(EntryBefore).content
               /\ web = last.before

\* an entry exactly 24 hours old is fetched again, with new content
C19_Witness ==
    /\ IsGPC
    /\ EntryBefore /= None
    /\ AgeBefore = TTL
    /\ last.fetched
    /\ last.content /= <<>>
    /\ last.content /= the(EntryBefore).content

\* C20 as claimed: after a miss the page is fetched and the cache holds the
\* fetched content under the url with the current timestamp; the call does
\* not raise and returns the fetched content whether or not the file was
\* written.
C20_WriteThrough ==
    (IsGPC /\ last.cached = None) =>
        /\ last.fetched /\ ~last.raised /\ last.content = last.page
        /\ web.cache[last.url] =
               Some([content |-> last.content, timestamp |-> web.now])

\* C20 as amended: the write-through happens when the fetched content is not
\* empty; an empty fetch leaves the cache and its file as they were.
C20_WriteThroughNonEmpty ==
    (IsGPC /\ last.cached = None) =>
        /\ last.fetched /\ ~last.raised /\ last.content = last.page
        /\ last.page /= <<>> =>
               /\ web.cache[last.url] =
                      Some([content |-> last.page, timestamp |-> web.now])
               /\ \A u \in Urls \ {last.url} : web.cache[u] = last.before.cache[u]
               /\ last.fault = "none" =>
                      web.file = [state |-> "ok", data |-> web.cache]
        /\ last.page = <<>> => web = last.before

\* an expired entry replaced by a fetch whose write to the file fails
C20_Witness ==
    /\ IsGPC
    /\ last.cached = None
    /\ EntryBefore /= None
    /\ last.page /= <<>>
    /\ last.page /= the(EntryBefore).content
    /\ last.fault = "dump"
    /\ web.file.state = "corrupt"
    /\ web.now > 0

IsGDI == last.op = "get_destination_info"
IsGatherCorpus == last.op = "gather_corpus"
IsPass == IsGDI \/ IsGatherCorpus

\* the URLs a pass called its fetcher for, and those whose text it took
FetchedUrls == {last.fetches[i].url : i \in DOMAIN last.fetches}
TakenUrls == {last.fetches[i].url : i \in {j \in DOMAIN last.fetches :
                                              last.fetches[j].content /= <<>>}}

\* C21: in a corpus-gathering pass (get_destination_info or gather_corpus) no
\* fetch, with its cache lookup and its HTTP requests, is made for a URL of a
\* blocklisted domain, and no text of such a URL enters the corpus.
C21_BlockedSkipped ==
    IsPass =>
        /\ \A url \in FetchedUrls : ~is_blocked_domain(url)
        /\ IsGatherCorpus =>
               \A i \in DOMAIN last.corpus : ~is_blocked_domain(last.corpus[i][2])

\* the calls of a pass that returned text, in order
TakenCalls == SelectSeq(last.fetches, LAMBDA c : c.content /= <<>>)

\* the number of calls before the i-th that returned text
TakenBefore(i) == Cardinality({j \in 1..(i - 1) : last.fetches[j].content /= <<>>})

\* the text get_destination_info builds from the calls that returned text
RECURSIVE BlocksOf(_)
BlocksOf(calls) ==
    IF calls = <<>> THEN <<>>
    ELSE SourceBlock(Title(Head(calls).url), Head(calls).content) \o BlocksOf(Tail(calls))

\* C22: a corpus-gathering pass takes text from at most 3 sources, whatever
\* the searches and pages answer: the corpus is made of the text of at most 3
\* fetches, and no fetch is made once 3 of them have returned text.
C22_AtMostThreeSources ==
    IsPass =>
        /\ Len(TakenCalls) <= 3
        /\ Cardinality(TakenUrls) <= 3
        /\ \A i \in DOMAIN last.fetches : TakenBefore(i) < 3
        /\ IsGDI /\ TakenCalls /= <<>> => last.info = BlocksOf(TakenCalls)
        /\ IsGatherCorpus =>
               {last.corpus[i][2] : i \in DOMAIN last.corpus} = TakenUrls

\* a pass that stopped at its third source with hits and queries left, after
\* fetches that failed
C22_Witness ==
    /\ IsGDI
    /\ Len(TakenCalls) = 3
    /\ Len(last.fetches) > 3
    /\ last.searched < NumSearchQueries
    /\ LET q == last.searches[last.searched]
       IN  q.results[Len(q.results)].href /= last.fetches[Len(last.fetches)].url

\* the URLs of the hits get_destination_info has to fetch, in order: those of
\* the searches that answered, without the blocklisted ones
RECURSIVE HitsToFetch(_)
HitsToFetch(searches) ==
    IF searches = <<>> THEN <<>>
    ELSE (IF Head(searches).raised THEN <<>>
          ELSE SelectSeq([i \in DOMAIN Head(searches).results |->
                              Head(searches).results[i].href],
                         LAMBDA url : ~is_blocked_domain(url)))
             \o HitsToFetch(Tail(searches))

\* the call did send requests and the last of them was not answered with 200
FetchFailed(call) ==
    call.requests /= <<>> /\ call.requests[Len(call.requests)] /= "200"

\* C23: in a get_destination_info pass, a fetch whose last request ended in
\* 403, 429, another HTTP error, a timeout or another exception returns "" and
\* nothing is raised; the text returned holds the sources that answered only,
\* and the hits and queries after a failed fetch are fetched all the same,
\* up to the third source.
C23_FailSoft ==
    IsGDI =>
        /\ ~last.raised
        /\ \A i \in DOMAIN last.fetches :
               FetchFailed(last.fetches[i]) => last.fetches[i].content = <<>>
        /\ last.info = IF TakenCalls = <<>> THEN NoInformation(last.destination)
                       ELSE BlocksOf(TakenCalls)
        /\ LET todo == HitsToFetch(last.searches)
               n == Len(last.fetches)
           IN  /\ n <= Len(todo)
               /\ \A i \in 1..n : last.fetches[i].url = todo[i]
               /\ Len(TakenCalls) < max_sources => n = Len(todo)

\* a pass in which a fetch was refused with 403, a later hit of the same query
\* gave text, and a search raised
C23_Witness ==
    /\ IsGDI
    /\ \E i \in DOMAIN last.fetches :
           /\ last.fetches[i].requests = <<"403">>
           /\ i < Len(last.fetches)
           /\ last.fetches[i + 1].content /= <<>>
    /\ \E q \in DOMAIN last.searches : last.searches[q].raised

IsRetry == last.op = "get_page_content_with_retry"

\* C26: get_page_content_with_retry ends after at most max_retries HTTP
\* requests; a request follows only an answer of 429, another HTTP error, a
\* timeout or another exception, never a 403 (or a 200), and after such an
\* answer the next request is sent as long as attempts remain.
C26_BoundedRetries ==
    IsRetry =>
        LET n == Len(last.requests)
        IN  /\ n <= last.max_retries
            /\ \A i \in 1..n : last.requests[i] = last.responses[i]
            /\ \A i \in 1..(n - 1) : last.requests[i] \notin {"403", "200"}
            /\ n > 0 /\ last.requests[n] \notin {"403", "200"} => n = last.max_retries
            /\ n = 0 => last.max_retries = 0
            /\ ~last.raised

\* a fetch refused with 403 on its second request while a third was allowed
C26_Witness ==
    /\ IsRetry
    /\ last.max_retries = 3
    /\ last.requests = <<"429", "403">>
    /\ last.content = <<>>

IsGen == last.op = "generate_itinerary"

\* the model each attempt is made on when none succeeds: lines 26-29 read in
\* order, retries + 1 attempts each
AttemptOrder ==
    <<"Mixtral-8x7B-Instruct-v0.1", "Mixtral-8x7B-Instruct-v0.1",
      "Mixtral-8x7B-Instruct-v0.1", "Mistral-7B-Instruct-v0.2",
      "Mistral-7B-Instruct-v0.2", "Mistral-7B-Instruct-v0.2",
      "zephyr-7b-beta", "zephyr-7b-beta", "zephyr-7b-beta",
      "flan-t5-xxl", "flan-t5-xxl">>

\* C27: generate_itinerary makes its attempts on the models in list order,
\* retries + 1 on each before the next, at most 11 in all; no attempt follows
\* one judged successful, whose result is returned; when all 11 fail, or the
\* messages cannot be built, what _generate_fallback_itinerary returns is
\* returned.
C27_AttemptOrder ==
    IsGen =>
        LET log == last.attempts
            n == Len(log)
        IN  /\ n <= 11
            /\ ~last.raised
            /\ \A i \in 1..n :
                   /\ models[log[i].model].name = AttemptOrder[i]
                   /\ log[i].attempt <= models[log[i].model].retries
                   /\ log[i].result = try_chat_completion(AttemptOrder[i], last.answers[i])
            /\ \A i \in 1..(n - 1) : ~Successful(log[i].result)
            /\ IF n > 0 /\ Successful(log[n].result)
               THEN last.itinerary = log[n].result
               ELSE /\ last.itinerary = generate_fallback_itinerary(SubmitInput)
                    /\ n = IF last.messages_fault THEN 0 ELSE 11

\* ten failed attempts, a loading model and a response without content among
\* them, and an eleventh that succeeds on the last model
C27_Witness ==
    /\ IsGen
    /\ Len(last.attempts) = 11
    /\ last.attempts[1].result.kind = "loading"
    /\ last.attempts[2].result.kind = "empty"
    /\ last.attempts[11].model = 4
    /\ last.itinerary = last.attempts[11].result
    /\ last.itinerary.kind = "itinerary"

\* C28: what generate_itinerary returns is never a message of a failure
\* branch of _try_chat_completion (authentication, not found, loading,
\* timeout, unexpected error, no response); after such a result another
\* attempt is made or the fallback is returned.
C28_NoFailureStringReturned ==
    IsGen =>
        /\ last.itinerary.kind \notin FailureKinds
        /\ \A i \in DOMAIN last.attempts :
               last.attempts[i].result.kind \in FailureKinds =>
                   i < Len(last.attempts) \/ last.itinerary.kind \in {"fallback itinerary", "apology"}

\* C29: when all 11 attempts fail, generate_itinerary returns the generic
\* fallback itinerary, not the apology for technical difficulties.
C29_FallbackItinerary ==
    IsGen /\ Len(last.attempts) = 11 /\ ~Successful(last.attempts[11].result)
        => last.itinerary.kind = "fallback itinerary"

IsSubmit == last.op = "submit"
Generated == IsSubmit /\ last.cached = None

\* the words of a text
WordsOf(text) == {split(text)[i] : i \in DOMAIN split(text)}

\* the pages a submission fetched text from
SubmitTakenUrls == {last.fetches[i].url : i \in {j \in DOMAIN last.fetches :
                                                    last.fetches[j].content /= <<>>}}

\* C24: when get_destination_info found no usable source, the message it
\* returns instead is not handled as page content: no stored (chunked and
\* embedded) document holds it and it is not among the retrieved chunks.
C24_NoInformationNotStored ==
    Generated /\ last.sources = 0 =>
        /\ ~InSeq(NoInformation(SubmitInput.destination), documents)
        /\ ~InSeq(NoInformation(SubmitInput.destination), last.relevant)

\* C25: each stored chunk is made of the text of one fetched page: its words
\* are all words of that page.
C25_ChunkFromOnePage ==
    Generated =>
        \A d \in DOMAIN documents :
            \E url \in SubmitTakenUrls :
                WordsOf(documents[d]) \subseteq WordsOf(last.world.page[url])

\* C30: the itinerary cache holds only itineraries a successful model call
\* produced, never a fallback itinerary, an apology or a failure message, and
\* a submission answered from it shows such an itinerary.
C30_CacheHoldsItineraries ==
    /\ \A k \in CacheKeys :
           cache_dir[k] /= None => the(cache_dir[k]).itinerary.kind = "itinerary"
    /\ IsSubmit /\ last.cached /= None => last.itinerary.kind = "itinerary"

=============================================================================
